---- MODULE Spec2Model ----
(***************************************************************************)
(* Model of wiki_tracker.py: main, WikipediaEditTracker.run,               *)
(* get_page_revisions and format_timestamp.                                *)
(*                                                                         *)
(* Python strings are modelled as sequences of one-character strings, so   *)
(* that substring search, strip, replace and timestamp parsing work on     *)
(* characters as the code does.  A Python dict is a function whose domain  *)
(* is its set of keys ("k" \in DOMAIN d is `k in d`); a list is a          *)
(* sequence.                                                               *)
(***************************************************************************)
EXTENDS Integers, Sequences, FiniteSets, TLC

VARIABLES
  pc,           \* position of the program: main / run / handler steps
  argv,         \* sys.argv
  page_title,   \* the title run was called with
  trackers,     \* number of WikipediaEditTracker objects constructed
  run_calls,    \* number of calls of run
  get_calls,    \* number of session.get requests issued
  json_calls,   \* number of response.json() calls (payload parsing)
  response,     \* what the transport delivered for the request
  result,       \* (revisions, redirect_title) returned by get_page_revisions
  exc,          \* the exception raised (pending, caught or escaped)
  idx,          \* position of the revision loop of run
  stdout,       \* lines printed to standard output
  stderr,       \* lines printed to the error stream
  run_exit,     \* value returned by run
  main_exit,    \* value returned by main
  ts_in,        \* argument of a direct format_timestamp call
  ts_out        \* its return value

vars == <<pc, argv, page_title, trackers, run_calls, get_calls, json_calls,
          response, result, exc, idx, stdout, stderr, run_exit, main_exit,
          ts_in, ts_out>>

\* ---------------------------------------------------------------- bounds

MaxArgs == 2
MaxRedirects == 2
MaxRevisions == 2

\* ------------------------------------------------------- exit codes

EXIT_OK == 0
EXIT_USAGE == 1
EXIT_NOT_FOUND == 2
EXIT_ERROR == 3

\* Python's None; no character sequence equals it.
None == <<"None">>
\* get_page_revisions has not returned; no exception has been raised
NoResult == [returned |-> FALSE]
NoException == [type |-> "none"]
\* "run / main has not returned".
NoExit == 0 - 1

\* ------------------------------------------------- string literals

\* "Network error: "
NETWORK_ERROR_PREFIX == <<"N","e","t","w","o","r","k"," ","e","r","r","o","r",":"," ">>
\* "Invalid response from Wikipedia API"
INVALID_RESPONSE == <<"I","n","v","a","l","i","d"," ","r","e","s","p","o","n","s","e"," ","f","r","o","m"," ","W","i","k","i","p","e","d","i","a"," ","A","P","I">>
\* "API error ("
API_ERROR_OPEN == <<"A","P","I"," ","e","r","r","o","r"," ","(">>
\* "): "
API_ERROR_MID == <<")",":"," ">>
\* "unknown"
DEFAULT_CODE == <<"u","n","k","n","o","w","n">>
\* "Unknown error"
DEFAULT_INFO == <<"U","n","k","n","o","w","n"," ","e","r","r","o","r">>
\* "No page data found"
NO_PAGE_DATA == <<"N","o"," ","p","a","g","e"," ","d","a","t","a"," ","f","o","u","n","d">>
\* "Page not found"
PAGE_NOT_FOUND == <<"P","a","g","e"," ","n","o","t"," ","f","o","u","n","d">>
\* "Redirected to "
REDIRECTED_TO == <<"R","e","d","i","r","e","c","t","e","d"," ","t","o"," ">>
\* "Unknown"
UNKNOWN_USER == <<"U","n","k","n","o","w","n">>
\* "Error: "
ERROR_PREFIX == <<"E","r","r","o","r",":"," ">>
\* "Error: No Wikipedia page found for '"
NO_WIKIPEDIA_PAGE == <<"E","r","r","o","r",":"," ","N","o"," ","W","i","k","i","p","e","d","i","a"," ","p","a","g","e"," ","f","o","u","n","d"," ","f","o","r"," ","'">>
\* "Usage: python wiki_tracker.py <article_name>"
USAGE_LINE == <<"U","s","a","g","e",":"," ","p","y","t","h","o","n"," ","w","i","k","i","_","t","r","a","c","k","e","r",".","p","y"," ","<","a","r","t","i","c","l","e","_","n","a","m","e",">">>
\* "Example: python wiki_tracker.py 'Ball State University'"
EXAMPLE_LINE == <<"E","x","a","m","p","l","e",":"," ","p","y","t","h","o","n"," ","w","i","k","i","_","t","r","a","c","k","e","r",".","p","y"," ","'","B","a","l","l"," ","S","t","a","t","e"," ","U","n","i","v","e","r","s","i","t","y","'">>
\* "Error: Article name cannot be empty"
EMPTY_NAME_LINE == <<"E","r","r","o","r",":"," ","A","r","t","i","c","l","e"," ","n","a","m","e"," ","c","a","n","n","o","t"," ","b","e"," ","e","m","p","t","y">>
\* "+00:00"
UTC_OFFSET == <<"+","0","0",":","0","0">>
\* "'to'"
KEY_TO == <<"'","t","o","'">>
\* "'timestamp'"
KEY_TIMESTAMP == <<"'","t","i","m","e","s","t","a","m","p","'">>
\* "'list' object has no attribute 'get'"
LIST_HAS_NO_GET == <<"'","l","i","s","t","'"," ","o","b","j","e","c","t"," ","h","a","s"," ","n","o"," ","a","t","t","r","i","b","u","t","e"," ","'","g","e","t","'">>
\* "wiki_tracker.py"
ProgName == <<"w","i","k","i","_","t","r","a","c","k","e","r",".","p","y">>
\* "Old Name"
TitleOld == <<"O","l","d"," ","N","a","m","e">>
\* "New Name"
TitleNew == <<"N","e","w"," ","N","a","m","e">>
\* "Other"
TitleOther == <<"O","t","h","e","r">>
\* "TestUser1"
UserA == <<"T","e","s","t","U","s","e","r","1">>
\* "nosuchpage"
CodeA == <<"n","o","s","u","c","h","p","a","g","e">>
\* "bad title"
InfoPlain == <<"b","a","d"," ","t","i","t","l","e">>
\* "Connection failed"
ConnFailed == <<"C","o","n","n","e","c","t","i","o","n"," ","f","a","i","l","e","d">>
\* "404 Page not found"
HttpNotFound == <<"4","0","4"," ","P","a","g","e"," ","n","o","t"," ","f","o","u","n","d">>
\* "2023-09-23T17:28:39Z"
TsValid == <<"2","0","2","3","-","0","9","-","2","3","T","1","7",":","2","8",":","3","9","Z">>
\* "invalid-timestamp"
TsInvalid == <<"i","n","v","a","l","i","d","-","t","i","m","e","s","t","a","m","p">>
\* "2023-266T17:28:39Z"
TsOrdinal == <<"2","0","2","3","-","2","6","6","T","1","7",":","2","8",":","3","9","Z">>
\* str(None)
None_TEXT == <<"N","o","n","e">>
\* "2023-09-23 17:28:39"
TsValidFormatted == <<"2","0","2","3","-","0","9","-","2","3"," ","1","7",":","2","8",":","3","9">>

\* ------------------------------------------------- string helpers

\* needle in hay (Python's `in` on str)
Contains(hay, needle) ==
  \E k \in 0..(Len(hay) - Len(needle)) :
    SubSeq(hay, k + 1, k + Len(needle)) = needle

StartsWith(s, prefix) ==
  Len(s) >= Len(prefix) /\ SubSeq(s, 1, Len(prefix)) = prefix

Whitespace == {" ", "\t", "\n", "\r"}

\* str.strip()
RECURSIVE lstrip(_)
lstrip(s) == IF s # << >> /\ Head(s) \in Whitespace THEN lstrip(Tail(s)) ELSE s

RECURSIVE rstrip(_)
rstrip(s) ==
  IF s # << >> /\ s[Len(s)] \in Whitespace THEN rstrip(SubSeq(s, 1, Len(s) - 1)) ELSE s

strip(s) == rstrip(lstrip(s))

\* str.replace(old, new) for a one-character `old`
RECURSIVE replace(_, _, _)
replace(s, old, new) ==
  IF s = << >> THEN << >>
  ELSE (IF Head(s) = old THEN new ELSE <<Head(s)>>) \o replace(Tail(s), old, new)

DigitChars == <<"0", "1", "2", "3", "4", "5", "6", "7", "8", "9">>

IsDigit(c) == \E d \in 1..10 : DigitChars[d] = c

DigitVal(c) == (CHOOSE d \in 1..10 : DigitChars[d] = c) - 1

AllDigits(s) == \A k \in 1..Len(s) : IsDigit(s[k])

RECURSIVE ToInt(_)
ToInt(s) == IF s = << >> THEN 0 ELSE 10 * ToInt(SubSeq(s, 1, Len(s) - 1)) + DigitVal(s[Len(s)])

\* decimal digits of n, without padding
RECURSIVE Decimal(_)
Decimal(n) == IF n < 10 THEN <<DigitChars[n + 1]>> ELSE Decimal(n \div 10) \o <<DigitChars[(n % 10) + 1]>>

\* n zero-padded to at least w digits (%m, %d, %H, %M, %S with w = 2)
RECURSIVE Padded(_, _)
Padded(n, w) == IF Len(Decimal(n)) >= w THEN Decimal(n) ELSE <<"0">> \o Padded(n, w - 1) 

\* --------------------------------------- datetime (standard library)

IsLeap(y) == (y % 4 = 0) /\ ((y % 100 # 0) \/ (y % 400 = 0))

DaysInMonth(y, m) ==
  IF m = 2 THEN (IF IsLeap(y) THEN 29 ELSE 28)
  ELSE IF m \in {4, 6, 9, 11} THEN 30 ELSE 31

ParseError == [ok |-> FALSE]

\* position of the first "+" or "-" of s, 0 when there is none
FirstSign(s) ==
  IF \E k \in 1..Len(s) : s[k] \in {"+", "-"}
  THEN CHOOSE k \in 1..Len(s) : s[k] \in {"+", "-"} /\ \A j \in 1..(k - 1) : s[j] \notin {"+", "-"}
  ELSE 0

\* HH[:MM[:SS]]
ParseClock(t) ==
  IF /\ Len(t) \in {2, 5, 8}
     /\ AllDigits(SubSeq(t, 1, 2))
     /\ (Len(t) >= 5 => t[3] = ":" /\ AllDigits(SubSeq(t, 4, 5)))
     /\ (Len(t) >= 8 => t[6] = ":" /\ AllDigits(SubSeq(t, 7, 8)))
  THEN [ok |-> TRUE,
        hour |-> ToInt(SubSeq(t, 1, 2)),
        minute |-> IF Len(t) >= 5 THEN ToInt(SubSeq(t, 4, 5)) ELSE 0,
        second |-> IF Len(t) >= 8 THEN ToInt(SubSeq(t, 7, 8)) ELSE 0]
  ELSE ParseError

\* +HH:MM, a UTC offset
ValidOffset(z) ==
  /\ Len(z) = 5
  /\ AllDigits(SubSeq(z, 1, 2)) /\ z[3] = ":" /\ AllDigits(SubSeq(z, 4, 5))
  /\ ToInt(SubSeq(z, 1, 2)) <= 23 /\ ToInt(SubSeq(z, 4, 5)) <= 59

\* datetime.fromisoformat on the extended calendar form
\* YYYY-MM-DD[*HH[:MM[:SS]][+HH:MM]]; ParseError stands for its ValueError.
fromisoformat(s) ==
  IF ~ (/\ Len(s) >= 10
        /\ AllDigits(SubSeq(s, 1, 4)) /\ s[5] = "-"
        /\ AllDigits(SubSeq(s, 6, 7)) /\ s[8] = "-"
        /\ AllDigits(SubSeq(s, 9, 10)))
  THEN ParseError
  ELSE
    LET year  == ToInt(SubSeq(s, 1, 4))
        month == ToInt(SubSeq(s, 6, 7))
        day   == ToInt(SubSeq(s, 9, 10))
        tstr  == SubSeq(s, 12, Len(s))
        sign  == FirstSign(tstr)
        clock == IF Len(s) = 10 THEN [ok |-> TRUE, hour |-> 0, minute |-> 0, second |-> 0]
                 ELSE IF sign = 0 THEN ParseClock(tstr)
                 ELSE ParseClock(SubSeq(tstr, 1, sign - 1))
        zoneOk == Len(s) = 10 \/ sign = 0 \/ ValidOffset(SubSeq(tstr, sign + 1, Len(tstr)))
    IN IF /\ clock.ok /\ zoneOk
          /\ year >= 1 /\ month \in 1..12 /\ day \in 1..DaysInMonth(year, month)
          /\ clock.hour <= 23 /\ clock.minute <= 59 /\ clock.second <= 59
       THEN [ok |-> TRUE, year |-> year, month |-> month, day |-> day,
             hour |-> clock.hour, minute |-> clock.minute, second |-> clock.second]
       ELSE ParseError

\* faulty variant: %I (12-hour clock) in place of %H
strftime_12_hour(dt, pads_year) ==
  (IF pads_year THEN Padded(dt.year, 4) ELSE Decimal(dt.year))
    \o <<"-">> \o Padded(dt.month, 2) \o <<"-">> \o Padded(dt.day, 2)
    \o <<" ">> \o Padded(IF dt.hour % 12 = 0 THEN 12 ELSE dt.hour % 12, 2)
    \o <<":">> \o Padded(dt.minute, 2) \o <<":">> \o Padded(dt.second, 2)

\* dt.strftime('%Y-%m-%d %H:%M:%S').  %Y is the platform's: the C library
\* either pads the year to four digits or prints it as it is (pads_year).
strftime(dt, pads_year) ==
  (IF pads_year THEN Padded(dt.year, 4) ELSE Decimal(dt.year))
    \o <<"-">> \o Padded(dt.month, 2) \o <<"-">> \o Padded(dt.day, 2)
    \o <<" ">> \o Padded(dt.hour, 2) \o <<":">> \o Padded(dt.minute, 2)
    \o <<":">> \o Padded(dt.second, 2)

\* ------------------------------------------------ format_timestamp

format_timestamp(timestamp, pads_year) ==
  LET dt == fromisoformat(replace(timestamp, "Z", UTC_OFFSET))
  IN IF dt.ok THEN strftime(dt, pads_year) ELSE timestamp

\* ------------------------------------------------------- inputs

SeqsUpTo(S, n) == UNION {[1..k -> S] : k \in 0..n}

\* an empty dict (and an empty list)
EmptyDict == << >>

\* d.get(k, default)
get(d, k, default) == IF k \in DOMAIN d THEN d[k] ELSE default

\* sys.argv: the program name and up to MaxArgs arguments
ArgValues == {TitleOld, << >>, <<" ", " ">>}

ArgvInputs == {<<ProgName>> \o a : a \in SeqsUpTo(ArgValues, MaxArgs)}

\* entries of query.redirects; the last one lacks `to`
RedirectEntries ==
  {[from |-> TitleOld, to |-> t] : t \in {TitleNew, TitleOther, << >>}}
    \cup {[from |-> TitleOld]}

\* entries of a page's revisions: complete, without user, without timestamp
RevisionEntries ==
  {[user |-> UserA, timestamp |-> TsValid],
   [timestamp |-> TsInvalid],
   [user |-> UserA]}

\* a page object: missing, without revisions key, with a revisions list
PageEntries ==
  {[title |-> TitleNew, missing |-> << >>], [title |-> TitleNew]}
    \cup {[title |-> TitleNew, revisions |-> r] : r \in SeqsUpTo(RevisionEntries, MaxRevisions)}

\* query.pages: its values in dict order (the API returns one page for one title)
PagesInputs == {EmptyDict} \cup {<<p>> : p \in PageEntries}

RedirectsInputs == SeqsUpTo(RedirectEntries, MaxRedirects)

QueryInputs ==
  {EmptyDict}
    \cup {[pages |-> p] : p \in PagesInputs}
    \cup {[redirects |-> r] : r \in RedirectsInputs}
    \cup {[redirects |-> r, pages |-> p] : r \in RedirectsInputs, p \in PagesInputs}

\* the top-level error object; the last one has neither code nor info
ErrorInputs ==
  {[code |-> CodeA, info |-> InfoPlain], [code |-> CodeA, info |-> PAGE_NOT_FOUND], EmptyDict}

PayloadInputs ==
  {EmptyDict}
    \cup {[query |-> q] : q \in QueryInputs}
    \cup {[error |-> e] : e \in ErrorInputs}
    \cup {[error |-> e, query |-> q] : e \in ErrorInputs, q \in QueryInputs}

\* a response body: not JSON, a JSON array, a JSON object
BodyInputs ==
  {[kind |-> "text"], [kind |-> "array"]}
    \cup {[kind |-> "object", data |-> d] : d \in PayloadInputs}

\* what session.get / raise_for_status do: raise, or deliver a body
TransportInputs ==
  {[sent |-> TRUE, ok |-> FALSE, error |-> e] : e \in {ConnFailed, HttpNotFound}}
    \cup {[sent |-> TRUE, ok |-> TRUE, body |-> b] : b \in BodyInputs}

NoResponse == [sent |-> FALSE, ok |-> FALSE]

\* arguments of format_timestamp
TimestampInputs ==
  {y \o <<"-">> \o m \o <<"-">> \o d \o <<"T">> \o h \o <<":">> \o mi \o <<":">> \o s \o z :
      y \in {<<"2","0","2","3">>, <<"2","0","1","6">>, <<"0","9","9","9">>},
      m \in {<<"0","9">>, <<"0","2">>, <<"1","2">>, <<"1","3">>},
      d \in {<<"2","3">>, <<"2","9">>, <<"3","1">>},
      h \in {<<"1","7">>, <<"2","3">>, <<"2","4">>},
      mi \in {<<"2","8">>, <<"5","9">>},
      s \in {<<"3","9">>, <<"6","0">>},
      z \in {<<"Z">>, <<"z">>, << >>}}
    \cup {TsInvalid, TsOrdinal, << >>}

\* ---------------------------------------------- get_page_revisions

Exception(type, msg) == [type |-> type, msg |-> msg]

Raise(e) == [raised |-> TRUE, exc |-> e]

Return(revisions, redirect_title) ==
  [raised |-> FALSE, revisions |-> revisions, redirect_title |-> redirect_title]

\* raise requests.RequestException(f"Network error: {e}")
\* faulty variant: the wrapper raised as a ValueError
NetworkError_as_ValueError(e) == Exception("ValueError", NETWORK_ERROR_PREFIX \o e)

NetworkError(e) == Exception("RequestException", NETWORK_ERROR_PREFIX \o e)

\* f"API error ({error_code}): {error_info}"
ApiErrorMessage(error) ==
  API_ERROR_OPEN \o get(error, "code", DEFAULT_CODE) \o API_ERROR_MID
    \o get(error, "info", DEFAULT_INFO)

\* faulty variant: redirects[-1] in place of redirects[0]
RedirectTitle_last(query) ==
  IF "redirects" \in DOMAIN query /\ query.redirects # << >>
  THEN IF "to" \in DOMAIN query.redirects[Len(query.redirects)]
       THEN [raised |-> FALSE, value |-> query.redirects[Len(query.redirects)].to]
       ELSE Raise(Exception("KeyError", KEY_TO))
  ELSE [raised |-> FALSE, value |-> None]

\* the redirect check: redirects[0]['to'] when the list is non-empty; a
\* first entry without `to` raises KeyError
RedirectTitle(query) ==
  IF "redirects" \in DOMAIN query /\ query.redirects # << >>
  THEN IF "to" \in DOMAIN query.redirects[1]
       THEN [raised |-> FALSE, value |-> query.redirects[1].to]
       ELSE Raise(Exception("KeyError", KEY_TO))
  ELSE [raised |-> FALSE, value |-> None]

\* faulty variant: `if page_data.get('missing')`
PageMissing_truthy(page_data) ==
  "missing" \in DOMAIN page_data /\ page_data.missing # << >>

\* `if 'missing' in page_data`
PageMissing(page_data) == "missing" \in DOMAIN page_data

\* everything after the request: response.json() and the classification
ParsePayload(body) ==
  IF body.kind = "text" THEN Raise(Exception("ValueError", INVALID_RESPONSE))
  ELSE IF body.kind = "array" THEN Raise(Exception("AttributeError", LIST_HAS_NO_GET))
  ELSE
    LET data == body.data
        query == get(data, "query", EmptyDict)
        redirect == RedirectTitle(query)
        pages == get(query, "pages", EmptyDict)
    IN IF "error" \in DOMAIN data
       THEN Raise(Exception("ValueError", ApiErrorMessage(data.error)))
       ELSE IF redirect.raised
       THEN redirect
       ELSE IF pages = EmptyDict
       THEN Raise(Exception("ValueError", NO_PAGE_DATA))
       ELSE IF PageMissing(pages[1])
       THEN Raise(Exception("ValueError", PAGE_NOT_FOUND))
       ELSE Return(get(pages[1], "revisions", << >>), redirect.value)

\* ------------------------------------------------------------ main

\* faulty variant: `if not page_title`
TitleIsBlank_no_strip(title) == title = << >>

\* `if not page_title.strip()`
TitleIsBlank(title) == strip(title) = << >>

Init ==
  /\ pc = "main"
  /\ argv \in ArgvInputs
  /\ page_title = None
  /\ trackers = 0
  /\ run_calls = 0
  /\ get_calls = 0
  /\ json_calls = 0
  /\ response = NoResponse
  /\ result = NoResult
  /\ exc = NoException
  /\ idx = 0
  /\ stdout = << >>
  /\ stderr = << >>
  /\ run_exit = NoExit
  /\ main_exit = NoExit
  /\ ts_in = None
  /\ ts_out = None

\* main up to the call of run
Main ==
  /\ pc = "main"
  /\ IF Len(argv) # 2
     THEN /\ stderr' = stderr \o <<USAGE_LINE, EXAMPLE_LINE>>
          /\ main_exit' = EXIT_USAGE
          /\ pc' = "exit"
          /\ UNCHANGED <<page_title, trackers, run_calls>>
     ELSE IF TitleIsBlank(argv[2])
     THEN /\ stderr' = Append(stderr, EMPTY_NAME_LINE)
          /\ main_exit' = EXIT_USAGE
          /\ pc' = "exit"
          /\ UNCHANGED <<page_title, trackers, run_calls>>
     ELSE /\ trackers' = trackers + 1
          /\ run_calls' = run_calls + 1
          /\ page_title' = argv[2]
          /\ pc' = "get"
          /\ UNCHANGED <<stderr, main_exit>>
  /\ UNCHANGED <<argv, get_calls, json_calls, response, result, exc, idx,
                 stdout, run_exit, ts_in, ts_out>>

\* faulty variant: a failed request is issued again (twice at most)
SessionGet_retry ==
  /\ pc = "get"
  /\ \E outcome \in TransportInputs :
       /\ response' = outcome
       /\ get_calls' = get_calls + 1
       /\ IF outcome.ok
          THEN pc' = "parse" /\ exc' = exc
          ELSE IF get_calls < 2
          THEN pc' = "get" /\ exc' = exc
          ELSE pc' = "except" /\ exc' = NetworkError(outcome.error)
  /\ UNCHANGED <<argv, page_title, trackers, run_calls, json_calls, result, idx,
                 stdout, stderr, run_exit, main_exit, ts_in, ts_out>>

\* get_page_revisions: the request and its status check
SessionGet ==
  /\ pc = "get"
  /\ \E outcome \in TransportInputs :
       /\ response' = outcome
       /\ get_calls' = get_calls + 1
       /\ IF outcome.ok
          THEN pc' = "parse" /\ exc' = exc
          ELSE pc' = "except" /\ exc' = NetworkError(outcome.error)
  /\ UNCHANGED <<argv, page_title, trackers, run_calls, json_calls, result, idx,
                 stdout, stderr, run_exit, main_exit, ts_in, ts_out>>

\* get_page_revisions: the rest, up to its return or raise
ParseResponse ==
  /\ pc = "parse"
  /\ json_calls' = json_calls + 1
  /\ LET r == ParsePayload(response.body)
     IN IF r.raised
        THEN pc' = "except" /\ exc' = r.exc /\ result' = result
        ELSE /\ pc' = "print_redirect"
             /\ result' = [returned |-> TRUE, revisions |-> r.revisions,
                           redirect_title |-> r.redirect_title]
             /\ exc' = exc
  /\ UNCHANGED <<argv, page_title, trackers, run_calls, get_calls, response, idx,
                 stdout, stderr, run_exit, main_exit, ts_in, ts_out>>

\* ------------------------------------------------------------- run

\* `if redirect_title:`
Truthy(title) == title # None /\ title # << >>

PrintRedirect ==
  /\ pc = "print_redirect"
  /\ stdout' = IF Truthy(result.redirect_title)
               THEN Append(stdout, REDIRECTED_TO \o result.redirect_title)
               ELSE stdout
  /\ idx' = 1
  /\ pc' = "loop"
  /\ UNCHANGED <<argv, page_title, trackers, run_calls, get_calls, json_calls,
                 response, result, exc, stderr, run_exit, main_exit, ts_in, ts_out>>

\* faulty variant: revision.get('user') without the 'Unknown' default
RevisionLine_no_default(revision, pads_year) ==
  format_timestamp(revision.timestamp, pads_year) \o <<" ">>
    \o get(revision, "user", None_TEXT)

\* f"{timestamp} {user}"
RevisionLine(revision, pads_year) ==
  format_timestamp(revision.timestamp, pads_year) \o <<" ">>
    \o get(revision, "user", UNKNOWN_USER)

\* one iteration of the revision loop
PrintRevision ==
  /\ pc = "loop"
  /\ idx <= Len(result.revisions)
  /\ LET revision == result.revisions[idx]
     IN IF "timestamp" \notin DOMAIN revision
        THEN /\ exc' = Exception("KeyError", KEY_TIMESTAMP)
             /\ pc' = "except"
             /\ UNCHANGED <<stdout, idx>>
        ELSE /\ \E pads_year \in BOOLEAN :
                  stdout' = Append(stdout, RevisionLine(revision, pads_year))
             /\ idx' = idx + 1
             /\ UNCHANGED <<pc, exc>>
  /\ UNCHANGED <<argv, page_title, trackers, run_calls, get_calls, json_calls,
                 response, result, stderr, run_exit, main_exit, ts_in, ts_out>>

ReturnSuccess ==
  /\ pc = "loop"
  /\ idx > Len(result.revisions)
  /\ run_exit' = EXIT_OK
  /\ pc' = "run_returned"
  /\ UNCHANGED <<argv, page_title, trackers, run_calls, get_calls, json_calls,
                 response, result, exc, idx, stdout, stderr, main_exit, ts_in, ts_out>>

\* faulty variant: print(...) without file=sys.stderr
PrintError_to_stdout(streams, line) ==
  [out |-> Append(streams.out, line), err |-> streams.err]

\* print(..., file=sys.stderr)
PrintError(streams, line) ==
  [out |-> streams.out, err |-> Append(streams.err, line)]

\* the exit code of `except ValueError as e`
ValueErrorExit(e) ==
  IF Contains(e.msg, PAGE_NOT_FOUND) THEN EXIT_NOT_FOUND ELSE EXIT_ERROR

ExceptValueError ==
  /\ pc = "except"
  /\ exc.type = "ValueError"
  /\ LET line == IF Contains(exc.msg, PAGE_NOT_FOUND)
                 THEN NO_WIKIPEDIA_PAGE \o page_title \o <<"'">>
                 ELSE ERROR_PREFIX \o exc.msg
         printed == PrintError([out |-> stdout, err |-> stderr], line)
     IN stdout' = printed.out /\ stderr' = printed.err
  /\ run_exit' = ValueErrorExit(exc)
  /\ pc' = "run_returned"
  /\ UNCHANGED <<argv, page_title, trackers, run_calls, get_calls, json_calls,
                 response, result, exc, idx, main_exit, ts_in, ts_out>>

ExceptRequestException ==
  /\ pc = "except"
  /\ exc.type = "RequestException"
  /\ LET printed == PrintError([out |-> stdout, err |-> stderr],
                               NETWORK_ERROR_PREFIX \o exc.msg)
     IN stdout' = printed.out /\ stderr' = printed.err
  /\ run_exit' = EXIT_ERROR
  /\ pc' = "run_returned"
  /\ UNCHANGED <<argv, page_title, trackers, run_calls, get_calls, json_calls,
                 response, result, exc, idx, main_exit, ts_in, ts_out>>

\* no except clause of run matches: the exception leaves run and main
Propagate ==
  /\ pc = "except"
  /\ exc.type \notin {"ValueError", "RequestException"}
  /\ pc' = "uncaught"
  /\ UNCHANGED <<argv, page_title, trackers, run_calls, get_calls, json_calls,
                 response, result, exc, idx, stdout, stderr, run_exit, main_exit,
                 ts_in, ts_out>>

\* return tracker.run(page_title)
MainReturn ==
  /\ pc = "run_returned"
  /\ main_exit' = run_exit
  /\ pc' = "exit"
  /\ UNCHANGED <<argv, page_title, trackers, run_calls, get_calls, json_calls,
                 response, result, exc, idx, stdout, stderr, run_exit, ts_in, ts_out>>

Next ==
  \/ Main
  \/ SessionGet
  \/ ParseResponse
  \/ PrintRedirect
  \/ PrintRevision
  \/ ReturnSuccess
  \/ ExceptValueError
  \/ ExceptRequestException
  \/ Propagate
  \/ MainReturn

Spec == Init /\ [][Next]_vars

\* ------------------------------- format_timestamp called on its own

InitFormat ==
  /\ pc = "format"
  /\ ts_in \in TimestampInputs
  /\ ts_out = None
  /\ argv = <<ProgName>>
  /\ page_title = None
  /\ trackers = 0
  /\ run_calls = 0
  /\ get_calls = 0
  /\ json_calls = 0
  /\ response = NoResponse
  /\ result = NoResult
  /\ exc = NoException
  /\ idx = 0
  /\ stdout = << >>
  /\ stderr = << >>
  /\ run_exit = NoExit
  /\ main_exit = NoExit

FormatTimestamp ==
  /\ pc = "format"
  /\ \E pads_year \in BOOLEAN : ts_out' = format_timestamp(ts_in, pads_year)
  /\ pc' = "formatted"
  /\ UNCHANGED <<argv, page_title, trackers, run_calls, get_calls, json_calls,
                 response, result, exc, idx, stdout, stderr, run_exit, main_exit, ts_in>>

NextFormat == FormatTimestamp

SpecFormat == InitFormat /\ [][NextFormat]_vars

\* ------------------------------------------------- the response, read
\* from the payload itself (not from what get_page_revisions made of it)

Failed == response.sent /\ ~response.ok

Delivered == response.sent /\ response.ok

IsObject == Delivered /\ response.body.kind = "object"

HasError == IsObject /\ "error" \in DOMAIN response.body.data

NoError == IsObject /\ "error" \notin DOMAIN response.body.data

Query == get(response.body.data, "query", EmptyDict)

Redirects == get(Query, "redirects", << >>)

Pages == get(Query, "pages", EmptyDict)

\* query.redirects is as the API documents it: every entry has `to`
RedirectsExpected == \A k \in 1..Len(Redirects) : "to" \in DOMAIN Redirects[k]

HasPage == NoError /\ Pages # EmptyDict

PageIsMissing == HasPage /\ "missing" \in DOMAIN Pages[1]

PageRevisions == get(Pages[1], "revisions", << >>)

\* every revision has a timestamp
RevisionsExpected ==
  \A k \in 1..Len(PageRevisions) : "timestamp" \in DOMAIN PageRevisions[k]

\* a response of the expected shape for an existing page
Successful == HasPage /\ ~PageIsMissing /\ RedirectsExpected /\ RevisionsExpected

Parsed == json_calls = 1

RunReturned == run_exit # NoExit

\* ------------------------------------------------------------ claims

\* C1: for every payload with a top-level error object carrying code and
\* info strings, whatever else it contains, get_page_revisions raises the
\* error "API error (<code>): <info>" and run returns 3, never 0 or 2.
C1_ApiErrorExitsWith3 ==
  (HasError /\ Parsed /\ DOMAIN response.body.data.error = {"code", "info"}) =>
    /\ exc = Exception("ValueError",
                       API_ERROR_OPEN \o response.body.data.error.code
                         \o API_ERROR_MID \o response.body.data.error.info)
    /\ (RunReturned => run_exit = EXIT_ERROR)

\* C2: for every parsed response without an error object whose page entry
\* has the "missing" marker, with or without redirects (each redirect entry
\* having its `to`), get_page_revisions raises "Page not found" and run (and
\* main) return 2.
C2_MissingPageExitsWith2 ==
  (PageIsMissing /\ RedirectsExpected /\ Parsed) =>
    /\ exc = Exception("ValueError", PAGE_NOT_FOUND)
    /\ result = NoResult
    /\ pc \in {"except", "run_returned", "exit"}
    /\ (RunReturned => run_exit = EXIT_NOT_FOUND)
    /\ (pc = "exit" => main_exit = EXIT_NOT_FOUND)

C2_Witness ==
  /\ pc = "exit" /\ main_exit = EXIT_NOT_FOUND
  /\ PageIsMissing /\ Len(Redirects) > 0 /\ RedirectsExpected

\* C3: when the request fails at the transport level, get_page_revisions
\* raises a RequestException whose message is "Network error: " followed by
\* the underlying error, no payload is parsed or classified, and run returns 3.
C3_TransportFailureExitsWith3 ==
  Failed =>
    /\ exc = Exception("RequestException", NETWORK_ERROR_PREFIX \o response.error)
    /\ StartsWith(exc.msg, NETWORK_ERROR_PREFIX)
    /\ json_calls = 0
    /\ result = NoResult
    /\ pc \in {"except", "run_returned", "exit"}
    /\ (RunReturned => run_exit = EXIT_ERROR)

C3_Witness ==
  /\ pc = "exit" /\ main_exit = EXIT_ERROR
  /\ Failed /\ response.error = HttpNotFound

\* C4: every execution of run issues exactly one GET request, whatever the
\* outcome: never more than one, and one once run has ended.
C4_ExactlyOneRequest ==
  /\ get_calls <= 1
  /\ ((run_calls = 1 /\ pc \in {"parse", "print_redirect", "loop", "except",
                                "run_returned", "uncaught", "exit"})
        => get_calls = 1)

C4_Witness ==
  /\ pc = "exit" /\ run_calls = 1 /\ get_calls = 1
  /\ Successful /\ Len(Redirects) > 0

\* C5: main returns 1 without constructing a tracker, calling run or issuing
\* a request when it has no argument or a blank one; run is called at most
\* once, only with exactly one non-blank argument, with that argument as the
\* title, and main then returns what run returned.
C5_MainArguments ==
  /\ run_calls <= 1
  /\ ((pc = "exit" /\ (Len(argv) = 1 \/ (Len(argv) = 2 /\ strip(argv[2]) = << >>)))
        => main_exit = EXIT_USAGE)
  /\ (main_exit = EXIT_USAGE => (trackers = 0 /\ run_calls = 0 /\ get_calls = 0))
  /\ (run_calls = 1 =>
        /\ Len(argv) = 2 /\ strip(argv[2]) # << >>
        /\ page_title = argv[2] /\ trackers = 1)
  /\ (get_calls > 0 => run_calls = 1)
  /\ ((pc = "exit" /\ run_calls = 1) => main_exit = run_exit /\ RunReturned)

C5_Witness ==
  /\ pc = "exit" /\ Len(argv) = 2 /\ argv[2] # << >> /\ strip(argv[2]) = << >>
  /\ main_exit = EXIT_USAGE /\ get_calls = 0

\* C6: whenever get_page_revisions returns, the redirect title it returns is
\* the `to` of the first entry of the response's redirects list when that list
\* is present and non-empty, and None otherwise.
C6_RedirectTitleIsFirstTo ==
  result.returned =>
    IF Redirects # << >>
    THEN "to" \in DOMAIN Redirects[1] /\ result.redirect_title = Redirects[1].to
    ELSE result.redirect_title = None

C6_Witness ==
  /\ result.returned /\ Len(Redirects) = 2
  /\ Redirects[1].to = TitleNew /\ "to" \in DOMAIN Redirects[2]
  /\ Redirects[2].to = TitleOther
  /\ result.redirect_title = TitleNew

\* what run prints for a successful response: the redirect notice when the
\* first redirect has a non-empty target, then one line per revision in the
\* order of the response
ExpectedRevisionLine(revision) ==
  format_timestamp(revision.timestamp, TRUE) \o <<" ">>
    \o (IF "user" \in DOMAIN revision THEN revision.user ELSE UNKNOWN_USER)

ExpectedStdout ==
  (IF Redirects # << >> /\ Redirects[1].to # << >>
   THEN <<REDIRECTED_TO \o Redirects[1].to>> ELSE << >>)
    \o [k \in 1..Len(PageRevisions) |-> ExpectedRevisionLine(PageRevisions[k])]

\* C7: for every successful response (no error object, a page entry without
\* the missing marker, every redirect with `to`, every revision with
\* `timestamp`) run prints the redirect notice first
\* (when there is a redirect target), then exactly one line per revision of
\* the page entry, in the response's order, with 'Unknown' for an absent user,
\* and returns 0; with no revisions it prints no revision line and returns 0.
C7_SuccessOutput ==
  (Successful /\ Parsed) =>
    /\ pc \in {"print_redirect", "loop", "run_returned", "exit"}
    /\ (pc \in {"run_returned", "exit"} =>
          /\ run_exit = EXIT_OK
          /\ stdout = ExpectedStdout
          /\ stderr = << >>)
    /\ (pc = "loop" => stdout = SubSeq(ExpectedStdout, 1, Len(stdout)))

C7_Witness ==
  /\ pc = "exit" /\ main_exit = EXIT_OK /\ Successful
  /\ Len(Redirects) > 0 /\ Len(PageRevisions) = 2
  /\ "user" \in DOMAIN PageRevisions[1] /\ "user" \notin DOMAIN PageRevisions[2]
  /\ Len(stdout) = 3

Unexpected ==
  /\ Delivered
  /\ \/ ~IsObject
     \/ NoError /\ (~HasPage \/ ~RedirectsExpected)
     \/ HasPage /\ ~PageIsMissing /\ ~RevisionsExpected

\* C9: no exception escapes run, and for every body that is not of the
\* expected structure run ends with a ValueError it caught and returns 3.
C9_InvalidResponseIsClassified ==
  /\ pc # "uncaught"
  /\ ((Unexpected /\ pc \in {"run_returned", "exit"}) =>
        (exc.type = "ValueError" /\ run_exit = EXIT_ERROR))

\* the fields of a string of the shape YYYY-MM-DDTHH:MM:SSZ
HasTimestampShape(s) ==
  /\ Len(s) = 20
  /\ AllDigits(SubSeq(s, 1, 4)) /\ s[5] = "-"
  /\ AllDigits(SubSeq(s, 6, 7)) /\ s[8] = "-"
  /\ AllDigits(SubSeq(s, 9, 10)) /\ s[11] = "T"
  /\ AllDigits(SubSeq(s, 12, 13)) /\ s[14] = ":"
  /\ AllDigits(SubSeq(s, 15, 16)) /\ s[17] = ":"
  /\ AllDigits(SubSeq(s, 18, 19)) /\ s[20] = "Z"

YearOf(s) == ToInt(SubSeq(s, 1, 4))
MonthOf(s) == ToInt(SubSeq(s, 6, 7))
DayOf(s) == ToInt(SubSeq(s, 9, 10))
HourOf(s) == ToInt(SubSeq(s, 12, 13))
MinuteOf(s) == ToInt(SubSeq(s, 15, 16))
SecondOf(s) == ToInt(SubSeq(s, 18, 19))

\* a calendar date and a time of day up to 23:59
HasValidDateAndMinute(s) ==
  /\ HasTimestampShape(s)
  /\ YearOf(s) >= 1
  /\ MonthOf(s) \in 1..12
  /\ DayOf(s) \in 1..DaysInMonth(YearOf(s), MonthOf(s))
  /\ HourOf(s) <= 23
  /\ MinuteOf(s) <= 59

\* a leap second: 23:59:60 on the last day of June or December
IsLeapSecond(s) ==
  /\ SecondOf(s) = 60 /\ HourOf(s) = 23 /\ MinuteOf(s) = 59
  /\ (MonthOf(s) = 12 /\ DayOf(s) = 31) \/ (MonthOf(s) = 6 /\ DayOf(s) = 30)

\* an ISO-8601 timestamp with the Z suffix (extended calendar form)
IsIso8601Z(s) ==
  HasValidDateAndMinute(s) /\ (SecondOf(s) <= 59 \/ IsLeapSecond(s))

\* the timestamps the wiki API sends: four-digit year from 1000, no leap second
IsApiTimestamp(s) ==
  HasValidDateAndMinute(s) /\ YearOf(s) >= 1000 /\ SecondOf(s) <= 59

\* the same date and time as YYYY-MM-DD HH:MM:SS
SameDateAndTime(s) == SubSeq(s, 1, 10) \o <<" ">> \o SubSeq(s, 12, 19)

\* fromisoformat raises ValueError on the string format_timestamp hands it
Unparseable(s) == ~fromisoformat(replace(s, "Z", UTC_OFFSET)).ok

\* C10 as stated: every ISO-8601 timestamp with a Z suffix is returned as
\* YYYY-MM-DD HH:MM:SS, and every unparseable string is returned unchanged.
C10_EveryIsoTimestamp ==
  (pc = "formatted") =>
    /\ (IsIso8601Z(ts_in) => ts_out = SameDateAndTime(ts_in))
    /\ (Unparseable(ts_in) => ts_out = ts_in)

\* C10 amended: every timestamp YYYY-MM-DDTHH:MM:SSZ with a year of 1000 or
\* later, a valid calendar date and a time up to 23:59:59 is returned as
\* YYYY-MM-DD HH:MM:SS, and every string the parser rejects (a leap second
\* 23:59:60 among them) is returned unchanged.
C10_ApiTimestamp ==
  (pc = "formatted") =>
    /\ (IsApiTimestamp(ts_in) => ts_out = SameDateAndTime(ts_in))
    /\ (Unparseable(ts_in) => ts_out = ts_in)

C10_Witness ==
  /\ pc = "formatted" /\ ts_in = TsValid /\ ts_out = TsValidFormatted
  /\ IsApiTimestamp(ts_in)

====
